---- MODULE Spec2Model ----
(***************************************************************************)
(* Model of scraper.py: the /scrape request handler (scrape_query), the    *)
(* pipeline it drives (search_and_scrape, try_scrape, persist_result), the *)
(* /results handler (get_results), the text functions (the cleaner, the    *)
(* quality gate) and the two shared stores: the PostgreSQL table           *)
(* scraped_results (db) and the Redis key space (markers "scraped:<url>",  *)
(* cache "results:<query>").                                               *)
(*                                                                         *)
(* A text is a sequence of lines, a line is a sequence of words, a word is *)
(* a string; the words of a line are separated by single spaces.  A query  *)
(* is a sequence of one-character strings.  Requests without q (lines      *)
(* 220-221) touch no state and are left out.                               *)
(***************************************************************************)
EXTENDS Integers, Sequences, FiniteSets, TLC

\* ------------------------------------------------------------------ bounds
\* Number of pipeline runs (requests that miss the cache) in one behaviour.
MaxPipelines == 2
\* Number of clock advances in one behaviour.
MaxTicks == 2

\* --------------------------------------------------------- program constants
MIN_WORDS == 50
MARKER_TTL == 86400
CACHE_TTL == 300

\* ------------------------------------------------------------ input domains
\* Flask worker threads serving requests concurrently.
Workers == {"w1", "w2"}
Urls == {"u1", "u2"}
\* A search result is represented by its "url" field; "" is a result without one.
NoUrl == ""
ResultLists == { <<NoUrl, "u2", "u1">>, <<"u2", "u2">> }
\* Queries after .strip(); <<"a">> is a case-insensitive substring of <<"A","b">>.
Queries == { <<"a">>, <<"A", "b">> }

Rep(w, n) == [i \in 1..n |-> w]

\* Articles a strategy plus extract_article can yield.
LOREM == << Rep("lorem", 50) >>
HELLO == << <<"Hello", "World">>, Rep("lorem", 50) >>
FAILEDART == << <<"Build", "Failed">>, Rep("lorem", 50) >>
SHORT == << <<"lorem", "ipsum">> >>
Articles == {LOREM, HELLO, FAILEDART, SHORT}
\* What running one strategy and extract_article gives: an article, or an
\* exception (network error, timeout, parse error).
THROW == [raised |-> TRUE, text |-> <<>>]
Yield(a) == [raised |-> FALSE, text |-> a]
Outcomes == { Yield(a) : a \in Articles } \cup {THROW}

\* ------------------------------------------------------------ pure helpers
\* str.lower() on the vocabulary of the model.
Lower(w) ==
  CASE w = "We" -> "we"
    [] w = "Cookie" -> "cookie"
    [] w = "Policy" -> "policy"
    [] w = "Hello" -> "hello"
    [] w = "World" -> "world"
    [] w = "Build" -> "build"
    [] w = "Failed" -> "failed"
    [] w = "A" -> "a"
    [] w = "B" -> "b"
    [] w = "Menu" -> "menu"
    [] w = "GDPR" -> "gdpr"
    [] w = "Our" -> "our"
    [] OTHER -> w

RECURSIVE Flatten(_)
\* text.split(): the words of all lines, in order.
Flatten(text) ==
  IF text = <<>> THEN <<>> ELSE Head(text) \o Flatten(Tail(text))

\* The characters of the words the text functions look into; any other word is
\* taken as one character that occurs in no pattern.
Chars(w) ==
  CASE w = "we" -> <<"w", "e">>
    [] w = "use" -> <<"u", "s", "e">>
    [] w = "cookies" -> <<"c", "o", "o", "k", "i", "e", "s">>
    [] w = "cookies." -> <<"c", "o", "o", "k", "i", "e", "s", ".">>
    [] w = "cookie" -> <<"c", "o", "o", "k", "i", "e">>
    [] w = "policy" -> <<"p", "o", "l", "i", "c", "y">>
    [] w = "accept" -> <<"a", "c", "c", "e", "p", "t">>
    [] w = "reject" -> <<"r", "e", "j", "e", "c", "t">>
    [] w = "all" -> <<"a", "l", "l">>
    [] w = "gdpr" -> <<"g", "d", "p", "r">>
    [] w = "privacy" -> <<"p", "r", "i", "v", "a", "c", "y">>
    [] w = "settings" -> <<"s", "e", "t", "t", "i", "n", "g", "s">>
    [] w = "log" -> <<"l", "o", "g">>
    [] w = "blog" -> <<"b", "l", "o", "g">>
    [] w = "in" -> <<"i", "n">>
    [] w = "sign" -> <<"s", "i", "g", "n">>
    [] w = "up" -> <<"u", "p">>
    [] w = "menu" -> <<"m", "e", "n", "u">>
    [] w = "menus" -> <<"m", "e", "n", "u", "s">>
    [] w = "what" -> <<"w", "h", "a", "t">>
    [] w = "can" -> <<"c", "a", "n">>
    [] w = "i" -> <<"i">>
    [] w = "help" -> <<"h", "e", "l", "p">>
    [] w = "with" -> <<"w", "i", "t", "h">>
    [] w = "our" -> <<"o", "u", "r">>
    [] OTHER -> <<w>>

RECURSIVE SpacedChars(_)
\* The lowercased characters of words separated by single spaces.
SpacedChars(words) ==
  IF words = <<>> THEN <<>>
  ELSE IF Len(words) = 1 THEN Chars(Lower(words[1]))
  ELSE Chars(Lower(words[1])) \o <<" ">> \o SpacedChars(Tail(words))

IsPrefix(p, s) == Len(p) <= Len(s) /\ SubSeq(s, 1, Len(p)) = p

\* text.lower().startswith(prefix), prefix a sequence of words on one line; no
\* more words of the first line than the prefix has can take part.
StartsWith(text, prefix) ==
  /\ Len(text) >= 1
  /\ Len(text[1]) >= Len(prefix)
  /\ IsPrefix(SpacedChars(prefix), SpacedChars(SubSeq(text[1], 1, Len(prefix))))

\* Mutant: the word count must exceed min_words.
is_valid_content_strict(text, min_words) ==
  /\ Len(Flatten(text)) > min_words
  /\ ~ ( StartsWith(text, <<"we", "use", "cookies">>)
         \/ StartsWith(text, <<"cookie", "policy">>) )

is_valid_content(text, min_words) ==
  /\ Len(Flatten(text)) >= min_words
  /\ ~ ( StartsWith(text, <<"we", "use", "cookies">>)
         \/ StartsWith(text, <<"cookie", "policy">>) )

\* ------------------------------------------------------------ the text cleaner
\* The cleaner sees whitespace, so its strings are written out: a string is the
\* non-empty sequence of the pieces between its "\n", a piece is a sequence of
\* tokens, a token is a word or the space " "; the words of a piece are
\* separated by at least one space.  << <<>> >> is the empty string.
SP == " "
EmptyString == << <<>> >>

COOKIE_WORDS == 15
NAV_WORDS == 5

\* str.splitlines(): a final "\n" ends the last line, it opens no empty one.
splitlines(s) == IF s[Len(s)] = <<>> THEN SubSeq(s, 1, Len(s) - 1) ELSE s

\* "\n".join(lines)
join(lines) == IF lines = <<>> THEN EmptyString ELSE lines

\* line.split(): the words of a line
split(line) == SelectSeq(line, LAMBDA t : t # SP)

RECURSIVE LineChars(_)
\* line.lower(), as characters
LineChars(line) ==
  IF line = <<>> THEN <<>>
  ELSE (IF Head(line) = SP THEN <<SP>> ELSE Chars(Lower(Head(line)))) \o LineChars(Tail(line))

\* needle in hay, re.search(needle, hay) for a literal needle
Contains(hay, needle) ==
  \E i \in 0..(Len(hay) - Len(needle)) : SubSeq(hay, i + 1, i + Len(needle)) = needle

IsBlank(line) == \A i \in 1..Len(line) : line[i] = SP

\* line.lstrip(), line.rstrip() for a line that is not blank
LStrip(line) ==
  SubSeq(line, CHOOSE k \in 1..Len(line) : line[k] # SP /\ \A j \in 1..(k - 1) : line[j] = SP,
         Len(line))
RStrip(line) ==
  SubSeq(line, 1,
         CHOOSE k \in 1..Len(line) : line[k] # SP /\ \A j \in (k + 1)..Len(line) : line[j] = SP)

\* str.strip() of a whole string: blank lines and spaces go at both ends.
strip(s) ==
  IF \A i \in 1..Len(s) : IsBlank(s[i]) THEN EmptyString
  ELSE LET first == CHOOSE i \in 1..Len(s) :
                      ~ IsBlank(s[i]) /\ \A j \in 1..(i - 1) : IsBlank(s[j])
           last == CHOOSE i \in 1..Len(s) :
                     ~ IsBlank(s[i]) /\ \A j \in (i + 1)..Len(s) : IsBlank(s[j])
           mid == SubSeq(s, first, last)
       IN [i \in 1..Len(mid) |->
             IF i = 1 /\ i = Len(mid) THEN RStrip(LStrip(mid[i]))
             ELSE IF i = 1 THEN LStrip(mid[i])
             ELSE IF i = Len(mid) THEN RStrip(mid[i])
             ELSE mid[i]]

cookie_patterns ==
  { <<"we", SP, "use", SP, "cookies">>, <<"cookie", SP, "policy">>,
    <<"accept", SP, "all">>, <<"reject", SP, "all">>, <<"gdpr">>,
    <<"privacy", SP, "settings">> }

nav_phrases ==
  { <<"log", SP, "in">>, <<"sign", SP, "up">>, <<"menu">>,
    <<"what", SP, "can", SP, "i", SP, "help", SP, "with">> }

\* Lines 78-83: short lines that mention a cookie pattern are dropped.
remove_cookie_banners(s) ==
  join(SelectSeq(splitlines(s),
         LAMBDA line :
           ~ ( /\ Len(split(line)) < COOKIE_WORDS
               /\ \E pat \in cookie_patterns :
                    Contains(LineChars(line), LineChars(pat)) )))

\* Lines 88-93: lines of at most five words that hold a navigation phrase are
\* dropped; the phrase is looked for in the stripped line.
remove_navigation(s) ==
  join(SelectSeq(splitlines(s),
         LAMBDA line :
           ~ ( /\ \E phrase \in nav_phrases :
                    Contains(LineChars(strip(<<line>>)[1]), LineChars(phrase))
               /\ Len(split(line)) <= NAV_WORDS )))

\* Mutant: the text is stripped before the lines are filtered, not after.
clean_extracted_text_strip_first(s) ==
  remove_navigation(remove_cookie_banners(strip(s)))

clean_extracted_text(s) == strip(remove_navigation(remove_cookie_banners(s)))

\* The string try_scrape returns when every strategy failed.
FAILED_MSG == << <<"Failed", "to", "extract", "valid", "content.">> >>

\* "Failed" in content: a case-sensitive substring test; in the vocabulary of
\* the model the only word containing it is "Failed".
ContainsFailed(content) ==
  \E i \in 1..Len(content) : \E j \in 1..Len(content[i]) : content[i][j] = "Failed"

\* Mutant: the anti-bot strategy is tried before the plain one.
strategies_swapped(has_requests_html) ==
  IF has_requests_html
    THEN <<"strategy_cloudscraper", "strategy_requests", "strategy_requests_html">>
    ELSE <<"strategy_cloudscraper", "strategy_requests">>

\* try_scrape's strategy list.
strategies(has_requests_html) ==
  IF has_requests_html
    THEN <<"strategy_requests", "strategy_cloudscraper", "strategy_requests_html">>
    ELSE <<"strategy_requests", "strategy_cloudscraper">>

RECURSIVE LikeMatch(_, _)
\* SQL LIKE on lowercased operands: "%" matches any run, "_" any one character.
LikeMatch(pat, s) ==
  IF pat = <<>> THEN s = <<>>
  ELSE IF Head(pat) = "%"
    THEN \/ LikeMatch(Tail(pat), s)
         \/ (s # <<>> /\ LikeMatch(pat, Tail(s)))
  ELSE /\ s # <<>>
       /\ (Head(pat) = "_" \/ Lower(Head(pat)) = Lower(Head(s)))
       /\ LikeMatch(Tail(pat), Tail(s))

\* ScrapedResult.query.ilike(f"%{query}%")
ILike(recQuery, q) == LikeMatch(<<"%">> \o q \o <<"%">>, recQuery)

SeqRange(s) == { s[i] : i \in 1..Len(s) }

\* All orderings of a finite set, as sequences without repetition.
Perms(S) ==
  { f \in [1..Cardinality(S) -> S] : \A i, j \in 1..Cardinality(S) : f[i] = f[j] => i = j }

\* --------------------------------------------------------------------- state
VARIABLES
  db,              \* scraped_results: sequence of rows, in insertion order
  markers,         \* Redis "scraped:<url>": expiry time, 0 when never set
  cache,           \* Redis "results:<query>": value and expiry time, or NoEntry
  now,             \* wall clock, seconds
  ticks,           \* clock advances so far
  requests,        \* pipeline runs started so far
  HAS_REQUESTS_HTML,
  pc,              \* per worker: position in the handler
  query,           \* per worker: the request's q
  results,         \* per worker: the aggregator's results
  idx,             \* per worker: position of the for loop over results
  existing_urls,   \* per worker: the set get_existing_urls returned
  strat,           \* per worker: position of try_scrape's for loop
  content,         \* per worker: what try_scrape returned
  compressed,      \* per worker: compress_results' blob
  answer,          \* per worker: the "data" of the response
  invoked,         \* history: strategies invoked by the running try_scrape
  persistFailedAt, \* history: positions of results whose persist_result raised
  failed,          \* history: urls for which some try_scrape exhausted its strategies
  overwritten,     \* history: cache entries replaced before they expired
  hadRecord,       \* history: candidate urls that had a row at the batch lookup
  served,          \* history: how the response is being produced
  unpaused,        \* history: per worker, strategies run since the last time.sleep
  raw,             \* the argument of clean_extracted_text called on its own
  cleaned,         \* what its successive applications returned
  gated,           \* the argument of is_valid_content called on its own
  verdict          \* what it returned

vars == << db, markers, cache, now, ticks, requests, HAS_REQUESTS_HTML, pc, query,
           results, idx, existing_urls, strat, content, compressed, answer,
           invoked, persistFailedAt, hadRecord, served, failed, overwritten,
           unpaused, raw, cleaned, gated, verdict >>

\* The variables of the text functions when they are called on their own, and
\* those of the request handlers.
pureVars == << raw, cleaned, gated, verdict >>
pipelineVars ==
  << db, markers, cache, now, ticks, requests, HAS_REQUESTS_HTML, pc, query, results,
     idx, existing_urls, strat, content, compressed, answer, invoked, persistFailedAt,
     hadRecord, served, failed, overwritten, unpaused >>

\* No text function is called on its own.
NoRaw == <<>>
NoCall ==
  /\ raw = NoRaw
  /\ cleaned = <<>>
  /\ gated = <<>>
  /\ verdict = "none"

NoEntry == [val |-> <<>>, exp |-> 0]
NoContent == <<>>

DbUrls(d) == { d[i].url : i \in 1..Len(d) }

\* redis_client.exists(f"scraped:{url}")
MarkerExists(u) == markers[u] > now

\* Mutant: the cache is never read.
CacheGet_miss(q) == <<>>

\* Mutant: the entry is stored without expiry.
CacheGet_forever(q) == cache[q].val

\* redis_client.get(redis_key): the value, or <<>> for None
CacheGet(q) == IF cache[q].exp > now THEN cache[q].val ELSE <<>>

InitWith(H) ==
  /\ db = <<>>
  /\ markers = [u \in Urls |-> 0]
  /\ cache = [q \in Queries |-> NoEntry]
  /\ now = 0
  /\ ticks = 0
  /\ requests = 0
  /\ HAS_REQUESTS_HTML \in H
  /\ pc = [w \in Workers |-> "idle"]
  /\ query = [w \in Workers |-> <<>>]
  /\ results = [w \in Workers |-> <<>>]
  /\ idx = [w \in Workers |-> 1]
  /\ existing_urls = [w \in Workers |-> {}]
  /\ strat = [w \in Workers |-> 1]
  /\ content = [w \in Workers |-> NoContent]
  /\ compressed = [w \in Workers |-> <<>>]
  /\ answer = [w \in Workers |-> <<>>]
  /\ invoked = [w \in Workers |-> <<>>]
  /\ persistFailedAt = [w \in Workers |-> {}]
  /\ failed = {}
  /\ overwritten = {}
  /\ hadRecord = [w \in Workers |-> {}]
  /\ served = [w \in Workers |-> "none"]
  /\ unpaused = [w \in Workers |-> 0]


\* ------------------------------------------------------------------ helpers
\* urls = [res["url"] for res in results if res.get("url")]
CandidateUrls(rs) == { rs[i] : i \in { j \in 1..Len(rs) : rs[j] # NoUrl } }

\* Mutant: the batch lookup finds nothing.
get_existing_urls_empty(urls, d) == {}

\* get_existing_urls(urls): the urls of the list that have a row
get_existing_urls(urls, d) == { u \in DbUrls(d) : u \in urls }

\* Mutant: the url column carries no unique constraint.
UniqueViolation_none(d, u) == FALSE

\* The unique constraint on scraped_results.url: the commit raises IntegrityError.
UniqueViolation(d, u) == u \in DbUrls(d)

\* The row persist_result builds.  title, description, engine_name, searxng_json
\* and embedding are copied from the result and play no part in the pipeline;
\* the articles of the model are shorter than 10000 characters, so the slice
\* [:10000] of line 160 leaves them as they are.
NewRow(q, u, text) == [query |-> q, url |-> u, extracted_content |-> text]

\* compress_results(results): the distinct lines of all rows
UniqueLines(rows) == UNION { SeqRange(r.extracted_content) : r \in rows }

\* The rows of ScrapedResult.query.ilike(f"%{query}%")
Matching(d, q) == { d[i] : i \in { j \in 1..Len(d) : ILike(d[j].query, q) } }

CurUrl(w) == results[w][idx[w]]

\* ---------------------------------------------------------------- scrape_query
\* Lines 223-226: the cached answer is returned.
scrape_query_cached(w, q) ==
  /\ pc[w] = "idle"
  /\ CacheGet(q) # <<>>
  /\ query' = [query EXCEPT ![w] = q]
  /\ answer' = [answer EXCEPT ![w] = CacheGet(q)]
  /\ served' = [served EXCEPT ![w] = "cache"]
  /\ pc' = [pc EXCEPT ![w] = "done"]
  /\ UNCHANGED << pureVars, unpaused,
                  db, markers, cache, now, ticks, requests, HAS_REQUESTS_HTML, results,
                  idx, existing_urls, strat, content, compressed, invoked,
                  persistFailedAt, hadRecord, failed, overwritten >>

\* Lines 223-228: no cached answer, the pipeline starts.
scrape_query_miss(w, q) ==
  /\ pc[w] = "idle"
  /\ requests < MaxPipelines
  /\ CacheGet(q) = <<>>
  /\ requests' = requests + 1
  /\ query' = [query EXCEPT ![w] = q]
  /\ served' = [served EXCEPT ![w] = "pipeline"]
  /\ pc' = [pc EXCEPT ![w] = "search"]
  /\ unpaused' = [unpaused EXCEPT ![w] = 0]
  /\ UNCHANGED << pureVars,
                  db, markers, cache, now, ticks, HAS_REQUESTS_HTML, results, idx,
                  existing_urls, strat, content, compressed, answer, invoked,
                  persistFailedAt, hadRecord, failed, overwritten >>

\* ------------------------------------------------------------ search_and_scrape
\* Mutant: the aggregator's exception is not caught and ends the request.
search_fail_uncaught(w) ==
  /\ pc[w] = "search"
  /\ results' = [results EXCEPT ![w] = <<>>]
  /\ served' = [served EXCEPT ![w] = "search_failed"]
  /\ pc' = [pc EXCEPT ![w] = "done"]
  /\ UNCHANGED << pureVars, unpaused,
                  db, markers, cache, now, ticks, requests, HAS_REQUESTS_HTML, query,
                  idx, existing_urls, strat, content, compressed, answer, invoked,
                  persistFailedAt, hadRecord, failed, overwritten >>

\* Lines 189-195: the aggregator call raises (transport error, non-2xx status,
\* malformed payload); search_and_scrape returns [].
search_fail(w) ==
  /\ pc[w] = "search"
  /\ results' = [results EXCEPT ![w] = <<>>]
  /\ served' = [served EXCEPT ![w] = "search_failed"]
  /\ pc' = [pc EXCEPT ![w] = "aggregate"]
  /\ UNCHANGED << pureVars, unpaused,
                  db, markers, cache, now, ticks, requests, HAS_REQUESTS_HTML, query,
                  idx, existing_urls, strat, content, compressed, answer, invoked,
                  persistFailedAt, hadRecord, failed, overwritten >>

\* Lines 192 and 197: the aggregator answers 200 with a JSON object whose
\* "results" is not a list of objects (null, a string, a list of strings); line
\* 192 accepts it and the comprehension of line 197, outside the try, raises.
\* The exception leaves search_and_scrape and scrape_query: the response is a 500.
search_malformed(w) ==
  /\ pc[w] = "search"
  /\ served' = [served EXCEPT ![w] = "error"]
  /\ pc' = [pc EXCEPT ![w] = "done"]
  /\ UNCHANGED << pureVars, unpaused,
                  db, markers, cache, now, ticks, requests, HAS_REQUESTS_HTML, query,
                  results, idx, existing_urls, strat, content, compressed, answer,
                  invoked, persistFailedAt, hadRecord, failed, overwritten >>

\* Lines 189-198: the aggregator answers with a list of results, and one batch
\* lookup tells which of their urls have a row.
search_ok(w, rs) ==
  /\ pc[w] = "search"
  /\ results' = [results EXCEPT ![w] = rs]
  /\ existing_urls' = [existing_urls EXCEPT ![w] = get_existing_urls(CandidateUrls(rs), db)]
  /\ hadRecord' = [hadRecord EXCEPT ![w] = DbUrls(db) \cap CandidateUrls(rs)]
  /\ idx' = [idx EXCEPT ![w] = 1]
  /\ pc' = [pc EXCEPT ![w] = "loop"]
  /\ UNCHANGED << pureVars, unpaused,
                  db, markers, cache, now, ticks, requests, HAS_REQUESTS_HTML, query,
                  strat, content, compressed, answer, invoked, persistFailedAt, served,
                  failed, overwritten >>

\* Line 200: the for loop is exhausted.
loop_end(w) ==
  /\ pc[w] = "loop"
  /\ idx[w] > Len(results[w])
  /\ pc' = [pc EXCEPT ![w] = "aggregate"]
  /\ UNCHANGED << pureVars, unpaused,
                  db, markers, cache, now, ticks, requests, HAS_REQUESTS_HTML, query,
                  results, idx, existing_urls, strat, content, compressed, answer,
                  invoked, persistFailedAt, hadRecord, served, failed, overwritten >>

\* Lines 201-203: a result without url.
skip_no_url(w) ==
  /\ pc[w] = "loop"
  /\ idx[w] <= Len(results[w])
  /\ CurUrl(w) = NoUrl
  /\ idx' = [idx EXCEPT ![w] = idx[w] + 1]
  /\ UNCHANGED << pureVars, unpaused,
                  db, markers, cache, now, ticks, requests, HAS_REQUESTS_HTML, pc,
                  query, results, existing_urls, strat, content, compressed, answer,
                  invoked, persistFailedAt, hadRecord, served, failed, overwritten >>

\* Mutant: the skip decision looks at the marker only.
IsProcessed_marker_only(w, u) == MarkerExists(u)

\* Line 205: the skip decision.
IsProcessed(w, u) == MarkerExists(u) \/ u \in existing_urls[w]

\* Lines 205-207: an already processed url is skipped.
skip_processed(w) ==
  /\ pc[w] = "loop"
  /\ idx[w] <= Len(results[w])
  /\ CurUrl(w) # NoUrl
  /\ IsProcessed(w, CurUrl(w))
  /\ idx' = [idx EXCEPT ![w] = idx[w] + 1]
  /\ UNCHANGED << pureVars, unpaused,
                  db, markers, cache, now, ticks, requests, HAS_REQUESTS_HTML, pc,
                  query, results, existing_urls, strat, content, compressed, answer,
                  invoked, persistFailedAt, hadRecord, served, failed, overwritten >>

\* Lines 209-210 and 132-134: try_scrape is entered.
begin_scrape(w) ==
  /\ pc[w] = "loop"
  /\ idx[w] <= Len(results[w])
  /\ CurUrl(w) # NoUrl
  /\ ~ IsProcessed(w, CurUrl(w))
  /\ strat' = [strat EXCEPT ![w] = 1]
  /\ invoked' = [invoked EXCEPT ![w] = <<>>]
  /\ pc' = [pc EXCEPT ![w] = "try"]
  /\ UNCHANGED << pureVars, unpaused,
                  db, markers, cache, now, ticks, requests, HAS_REQUESTS_HTML, query,
                  results, idx, existing_urls, content, compressed, answer,
                  persistFailedAt, hadRecord, served, failed, overwritten >>

\* ------------------------------------------------------------------ try_scrape
\* Lines 137-144: one strategy is run; out is the extracted article or the
\* exception.  Valid content is returned at once.
attempt(w, out) ==
  /\ pc[w] = "try"
  /\ LET name == strategies(HAS_REQUESTS_HTML)[strat[w]]
         valid == ~ out.raised /\ is_valid_content(out.text, MIN_WORDS)
     IN /\ invoked' = [invoked EXCEPT ![w] = Append(@, [strat |-> name, out |-> out])]
        /\ IF valid
             THEN /\ content' = [content EXCEPT ![w] = out.text]
                  /\ pc' = [pc EXCEPT ![w] = "scraped"]
             ELSE /\ content' = content
                  /\ pc' = [pc EXCEPT ![w] = "strat_sleep"]
  /\ unpaused' = [unpaused EXCEPT ![w] = @ + 1]
  /\ UNCHANGED << pureVars,
                  db, markers, cache, now, ticks, requests, HAS_REQUESTS_HTML, query,
                  results, idx, existing_urls, strat, compressed, answer,
                  persistFailedAt, hadRecord, served, failed, overwritten >>

\* Mutant: a url whose strategies all failed gets a marker.
strat_sleep_marks(w) ==
  /\ pc[w] = "strat_sleep"
  /\ IF strat[w] < Len(strategies(HAS_REQUESTS_HTML))
       THEN /\ strat' = [strat EXCEPT ![w] = strat[w] + 1]
            /\ pc' = [pc EXCEPT ![w] = "try"]
            /\ UNCHANGED << content, failed, markers >>
       ELSE /\ strat' = strat
            /\ content' = [content EXCEPT ![w] = FAILED_MSG]
            /\ failed' = failed \cup {CurUrl(w)}
            /\ markers' = [markers EXCEPT ![CurUrl(w)] = now + MARKER_TTL]
            /\ pc' = [pc EXCEPT ![w] = "scraped"]
  /\ unpaused' = [unpaused EXCEPT ![w] = 0]
  /\ UNCHANGED << pureVars,
                  db, cache, now, ticks, requests, HAS_REQUESTS_HTML, query, results,
                  idx, existing_urls, compressed, answer, invoked, persistFailedAt,
                  hadRecord, served, overwritten >>

\* Lines 145-146: time.sleep(1) after a failed strategy, then the next strategy
\* or, when the list is exhausted, the failure message.
strat_sleep(w) ==
  /\ pc[w] = "strat_sleep"
  /\ IF strat[w] < Len(strategies(HAS_REQUESTS_HTML))
       THEN /\ strat' = [strat EXCEPT ![w] = strat[w] + 1]
            /\ pc' = [pc EXCEPT ![w] = "try"]
            /\ UNCHANGED << content, failed >>
       ELSE /\ strat' = strat
            /\ content' = [content EXCEPT ![w] = FAILED_MSG]
            /\ failed' = failed \cup {CurUrl(w)}
            /\ pc' = [pc EXCEPT ![w] = "scraped"]
  /\ unpaused' = [unpaused EXCEPT ![w] = 0]
  /\ UNCHANGED << pureVars,
                  db, markers, cache, now, ticks, requests, HAS_REQUESTS_HTML, query,
                  results, idx, existing_urls, compressed, answer, invoked,
                  persistFailedAt, hadRecord, served, overwritten >>

\* Line 211: if "Failed" not in content
scraped(w) ==
  /\ pc[w] = "scraped"
  /\ pc' = [pc EXCEPT ![w] = IF ContainsFailed(content[w]) THEN "url_sleep" ELSE "persist"]
  /\ invoked' = [invoked EXCEPT ![w] = <<>>]
  /\ strat' = [strat EXCEPT ![w] = 1]
  /\ UNCHANGED << pureVars, unpaused,
                  db, markers, cache, now, ticks, requests, HAS_REQUESTS_HTML, query,
                  results, idx, existing_urls, content, compressed, answer,
                  persistFailedAt, hadRecord, served, failed, overwritten >>

\* -------------------------------------------------------------- persist_result
\* Mutant: the row of a url that has one is replaced (merge instead of add).
persist_commit_upsert(w) ==
  /\ pc[w] = "persist"
  /\ db' = IF UniqueViolation(db, CurUrl(w))
             THEN [i \in 1..Len(db) |->
                     IF db[i].url = CurUrl(w)
                       THEN NewRow(query[w], CurUrl(w), content[w]) ELSE db[i]]
             ELSE Append(db, NewRow(query[w], CurUrl(w), content[w]))
  /\ pc' = [pc EXCEPT ![w] = "persist_mark"]
  /\ UNCHANGED << pureVars, unpaused,
                  markers, cache, now, ticks, requests, HAS_REQUESTS_HTML, query,
                  results, idx, existing_urls, strat, content, compressed, answer,
                  invoked, persistFailedAt, hadRecord, served, failed, overwritten >>

\* Lines 150-164: the row is added and committed.
persist_commit(w) ==
  /\ pc[w] = "persist"
  /\ ~ UniqueViolation(db, CurUrl(w))
  /\ db' = Append(db, NewRow(query[w], CurUrl(w), content[w]))
  /\ pc' = [pc EXCEPT ![w] = "persist_mark"]
  /\ UNCHANGED << pureVars, unpaused,
                  markers, cache, now, ticks, requests, HAS_REQUESTS_HTML, query,
                  results, idx, existing_urls, strat, content, compressed, answer,
                  invoked, persistFailedAt, hadRecord, served, failed, overwritten >>

\* Mutant: the write error is not caught and ends the request.
persist_fail_uncaught(w, other) ==
  /\ pc[w] = "persist"
  /\ other \/ UniqueViolation(db, CurUrl(w))
  /\ persistFailedAt' = [persistFailedAt EXCEPT ![w] = @ \cup {idx[w]}]
  /\ served' = [served EXCEPT ![w] = "error"]
  /\ pc' = [pc EXCEPT ![w] = "done"]
  /\ UNCHANGED << pureVars, unpaused,
                  db, markers, cache, now, ticks, requests, HAS_REQUESTS_HTML, query,
                  results, idx, existing_urls, strat, content, compressed, answer,
                  invoked, hadRecord, failed, overwritten >>

\* Lines 166-170: the commit raises (unique violation or, when other is TRUE,
\* any other write error); the transaction is rolled back and the exception is
\* swallowed.
persist_fail(w, other) ==
  /\ pc[w] = "persist"
  /\ other \/ UniqueViolation(db, CurUrl(w))
  /\ persistFailedAt' = [persistFailedAt EXCEPT ![w] = @ \cup {idx[w]}]
  /\ pc' = [pc EXCEPT ![w] = "mark"]
  /\ UNCHANGED << pureVars, unpaused,
                  db, markers, cache, now, ticks, requests, HAS_REQUESTS_HTML, query,
                  results, idx, existing_urls, strat, content, compressed, answer,
                  invoked, hadRecord, served, failed, overwritten >>

\* Line 165: the marker is set after the commit.
persist_mark(w) ==
  /\ pc[w] = "persist_mark"
  /\ markers' = [markers EXCEPT ![CurUrl(w)] = now + MARKER_TTL]
  /\ pc' = [pc EXCEPT ![w] = "mark"]
  /\ UNCHANGED << pureVars, unpaused,
                  db, cache, now, ticks, requests, HAS_REQUESTS_HTML, query, results,
                  idx, existing_urls, strat, content, compressed, answer, invoked,
                  persistFailedAt, hadRecord, served, failed, overwritten >>

\* Mutant: the pause after a url is taken only when nothing was extracted.
mark_no_sleep(w) ==
  /\ pc[w] = "mark"
  /\ markers' = [markers EXCEPT ![CurUrl(w)] = now + MARKER_TTL]
  /\ idx' = [idx EXCEPT ![w] = idx[w] + 1]
  /\ content' = [content EXCEPT ![w] = NoContent]
  /\ pc' = [pc EXCEPT ![w] = "loop"]
  /\ UNCHANGED << pureVars, unpaused,
                  db, cache, now, ticks, requests, HAS_REQUESTS_HTML, query, results,
                  existing_urls, strat, compressed, answer, invoked,
                  persistFailedAt, hadRecord, served, failed, overwritten >>

\* Line 213: the marker is set after persist_result returned.
mark(w) ==
  /\ pc[w] = "mark"
  /\ markers' = [markers EXCEPT ![CurUrl(w)] = now + MARKER_TTL]
  /\ pc' = [pc EXCEPT ![w] = "url_sleep"]
  /\ UNCHANGED << pureVars, unpaused,
                  db, cache, now, ticks, requests, HAS_REQUESTS_HTML, query, results,
                  idx, existing_urls, strat, content, compressed, answer, invoked,
                  persistFailedAt, hadRecord, served, failed, overwritten >>

\* Line 214: time.sleep(1), then the next result.
url_sleep(w) ==
  /\ pc[w] = "url_sleep"
  /\ idx' = [idx EXCEPT ![w] = idx[w] + 1]
  /\ content' = [content EXCEPT ![w] = NoContent]
  /\ pc' = [pc EXCEPT ![w] = "loop"]
  /\ unpaused' = [unpaused EXCEPT ![w] = 0]
  /\ UNCHANGED << pureVars,
                  db, markers, cache, now, ticks, requests, HAS_REQUESTS_HTML, query,
                  results, existing_urls, strat, compressed, answer, invoked,
                  persistFailedAt, hadRecord, served, failed, overwritten >>

\* ------------------------------------------------- scrape_query, second half
RECURSIVE AllLines(_)
\* The lines of the rows, one row after the other, repetitions kept.
AllLines(rows) ==
  IF rows = <<>> THEN <<>> ELSE Head(rows).extracted_content \o AllLines(Tail(rows))

\* Mutant: the lines are collected in a list, not in a set.
aggregate_concat(w, blob) ==
  /\ pc[w] = "aggregate"
  /\ compressed' = [compressed EXCEPT ![w] =
                      AllLines(SelectSeq(db, LAMBDA r : ILike(r.query, query[w])))]
  /\ pc' = [pc EXCEPT ![w] = "cache_store"]
  /\ UNCHANGED << pureVars, unpaused,
                  db, markers, cache, now, ticks, requests, HAS_REQUESTS_HTML, query,
                  results, idx, existing_urls, strat, content, answer, invoked,
                  persistFailedAt, hadRecord, served, failed, overwritten >>

\* Lines 230-234: the matching rows are read and compressed; the order of the
\* lines is the iteration order of a Python set.
aggregate(w, blob) ==
  /\ pc[w] = "aggregate"
  /\ blob \in Perms(UniqueLines(Matching(db, query[w])))
  /\ compressed' = [compressed EXCEPT ![w] = blob]
  /\ pc' = [pc EXCEPT ![w] = "cache_store"]
  /\ UNCHANGED << pureVars, unpaused,
                  db, markers, cache, now, ticks, requests, HAS_REQUESTS_HTML, query,
                  results, idx, existing_urls, strat, content, answer, invoked,
                  persistFailedAt, hadRecord, served, failed, overwritten >>

\* Mutant: the blob is cached whether or not it is empty.
cache_store_always(w) ==
  /\ pc[w] = "cache_store"
  /\ cache' = [cache EXCEPT ![query[w]] = [val |-> compressed[w], exp |-> now + CACHE_TTL]]
  /\ overwritten' =
       IF cache[query[w]].exp > now
         THEN overwritten \cup {[q |-> query[w], val |-> cache[query[w]].val,
                                 exp |-> cache[query[w]].exp]}
         ELSE overwritten
  /\ answer' = [answer EXCEPT ![w] = compressed[w]]
  /\ pc' = [pc EXCEPT ![w] = "done"]
  /\ UNCHANGED << pureVars, unpaused,
                  db, markers, now, ticks, requests, HAS_REQUESTS_HTML, query, results,
                  idx, existing_urls, strat, content, compressed, invoked,
                  persistFailedAt, hadRecord, served, failed >>

\* Lines 235-238: a non-empty blob is cached for 5 minutes; the blob is the
\* response.
cache_store(w) ==
  /\ pc[w] = "cache_store"
  /\ IF compressed[w] # <<>>
       THEN /\ cache' = [cache EXCEPT ![query[w]] =
                           [val |-> compressed[w], exp |-> now + CACHE_TTL]]
            /\ overwritten' =
                 IF cache[query[w]].exp > now
                   THEN overwritten \cup {[q |-> query[w], val |-> cache[query[w]].val,
                                           exp |-> cache[query[w]].exp]}
                   ELSE overwritten
       ELSE UNCHANGED << cache, overwritten >>
  /\ answer' = [answer EXCEPT ![w] = compressed[w]]
  /\ pc' = [pc EXCEPT ![w] = "done"]
  /\ UNCHANGED << pureVars, unpaused,
                  db, markers, now, ticks, requests, HAS_REQUESTS_HTML, query, results,
                  idx, existing_urls, strat, content, compressed, invoked,
                  persistFailedAt, hadRecord, served, failed >>

\* The response has been sent; the worker is free for the next request.
respond(w) ==
  /\ pc[w] = "done"
  /\ pc' = [pc EXCEPT ![w] = "idle"]
  /\ query' = [query EXCEPT ![w] = <<>>]
  /\ results' = [results EXCEPT ![w] = <<>>]
  /\ idx' = [idx EXCEPT ![w] = 1]
  /\ existing_urls' = [existing_urls EXCEPT ![w] = {}]
  /\ compressed' = [compressed EXCEPT ![w] = <<>>]
  /\ answer' = [answer EXCEPT ![w] = <<>>]
  /\ persistFailedAt' = [persistFailedAt EXCEPT ![w] = {}]
  /\ hadRecord' = [hadRecord EXCEPT ![w] = {}]
  /\ served' = [served EXCEPT ![w] = "none"]
  /\ UNCHANGED << pureVars, unpaused,
                  db, markers, cache, now, ticks, requests, HAS_REQUESTS_HTML, strat,
                  content, invoked, failed, overwritten >>

\* ------------------------------------------------------------------ get_results
RESULTS_LIMIT == 50

\* Line 249: the first 500 characters of the content; the articles of the model
\* are shorter, so the content is listed whole.
Excerpt(c) == c

\* Lines 242-250: the /results endpoint lists url and content of at most 50
\* rows whose query contains q.
get_results(w, q) ==
  /\ pc[w] = "idle"
  /\ LET rows == SelectSeq(db, LAMBDA r : ILike(r.query, q))
         n == IF Len(rows) < RESULTS_LIMIT THEN Len(rows) ELSE RESULTS_LIMIT
     IN answer' = [answer EXCEPT ![w] =
                     [i \in 1..n |-> [url |-> rows[i].url,
                                      content |-> Excerpt(rows[i].extracted_content)]]]
  /\ query' = [query EXCEPT ![w] = q]
  /\ served' = [served EXCEPT ![w] = "results"]
  /\ pc' = [pc EXCEPT ![w] = "done"]
  /\ UNCHANGED << pureVars, unpaused,
                  db, markers, cache, now, ticks, requests, HAS_REQUESTS_HTML, results,
                  idx, existing_urls, strat, content, compressed, invoked,
                  persistFailedAt, hadRecord, failed, overwritten >>

\* Time passes.
Tick(d) ==
  /\ ticks < MaxTicks
  /\ ticks' = ticks + 1
  /\ now' = now + d
  /\ UNCHANGED << pureVars, unpaused,
                  db, markers, cache, requests, HAS_REQUESTS_HTML, pc, query, results,
                  idx, existing_urls, strat, content, compressed, answer, invoked,
                  persistFailedAt, hadRecord, served, failed, overwritten >>

\* One step of a request, the inputs being drawn from the given sets: W the
\* workers, Q the queries, RL the aggregator's answers, O[u] what a strategy can
\* give for url u.
OutcomesAt(w, O) == IF pc[w] = "try" THEN O[CurUrl(w)] ELSE {}

Pipeline(W, Q, RL, O) ==
  \/ \E w \in W, q \in Q : scrape_query_cached(w, q)
  \/ \E w \in W, q \in Q : scrape_query_miss(w, q)
  \/ \E w \in W : search_fail(w)
  \/ \E w \in W : search_malformed(w)
  \/ \E w \in W, rs \in RL : search_ok(w, rs)
  \/ \E w \in W : loop_end(w)
  \/ \E w \in W : skip_no_url(w)
  \/ \E w \in W : skip_processed(w)
  \/ \E w \in W : begin_scrape(w)
  \/ \E w \in W : \E out \in OutcomesAt(w, O) : attempt(w, out)
  \/ \E w \in W : strat_sleep(w)
  \/ \E w \in W : scraped(w)
  \/ \E w \in W : persist_commit(w)
  \/ \E w \in W, other \in BOOLEAN : persist_fail(w, other)
  \/ \E w \in W : persist_mark(w)
  \/ \E w \in W : mark(w)
  \/ \E w \in W : url_sleep(w)
  \/ \E w \in W :
       \E blob \in Perms(UniqueLines(Matching(db, query[w]))) : aggregate(w, blob)
  \/ \E w \in W : cache_store(w)
  \/ \E w \in W : respond(w)

\* ---------------------------------------------------------- specifications
\* Spec: two workers serve requests for one query concurrently; each result
\* list holds one url (one after a result without url) and the page behind a
\* url is fixed, so a strategy either raises or extracts that page's article;
\* the clock advances by 4 minutes or by 24 hours.
Page(u) == IF u = "u1" THEN LOREM ELSE HELLO
PageOutcomes == [u \in Urls |-> {THROW, Yield(Page(u))}]
RaceQueries == { <<"a">> }
RaceLists == { <<"u1">>, <<NoUrl, "u2">> }
TickSteps == {240, 86400}

Init == InitWith({FALSE}) /\ NoCall

Next ==
  \/ Pipeline(Workers, RaceQueries, RaceLists, PageOutcomes)
  \/ \E d \in TickSteps : Tick(d)

Spec == Init /\ [][Next]_vars

\* SpecSeq: one worker serves the requests, /scrape and /results, one after the
\* other; both queries, result lists with a missing url and with a repeated
\* url, every outcome of every strategy, with and without the rendering
\* strategy; the clock advances by 24 hours.
SeqWorkers == {"w1"}
AnyOutcome == [u \in Urls |-> Outcomes]
DayStep == {86400}

InitSeq == InitWith(BOOLEAN) /\ NoCall

NextSeq ==
  \/ Pipeline(SeqWorkers, Queries, ResultLists, AnyOutcome)
  \/ \E w \in SeqWorkers, q \in Queries : get_results(w, q)
  \/ \E d \in DayStep : Tick(d)

SpecSeq == InitSeq /\ [][NextSeq]_vars

\* SpecText: the text functions are called on their own, clean_extracted_text
\* twice in a row, on every text of the bounded sets.
\* Number of pieces of a string given to the cleaner.
MaxLines == 3

Word6 == <<"Menu", SP, "a", SP, "a", SP, "a", SP, "a", SP, "a">>
Word15 ==
  <<"GDPR", SP, "a", SP, "a", SP, "a", SP, "a", SP, "a", SP, "a", SP, "a", SP,
    "a", SP, "a", SP, "a", SP, "a", SP, "a", SP, "a", SP, "a">>
\* The lines the cleaner is given: empty, blank, navigation and cookie lines
\* below and above the word limits, ordinary lines with spaces at either end, a
\* phrase across two words and a phrase broken by a second space.
LineLib ==
  { <<>>, <<SP>>, <<SP, "Menu", SP>>, Word6, <<"We", SP, "use", SP, "cookies">>, Word15,
    <<SP, "a">>, <<"a", SP>>, <<"blog", SP, "in">>, <<"log", SP, SP, "in">> }
RawTexts == UNION { [1..n -> LineLib] : n \in 1..MaxLines }

\* The texts the quality gate is given: a first line, alone or followed by a
\* line of 46 to 50 words.
GateHeads ==
  { <<"We", "use", "cookies">>, <<"we", "use", "cookies.">>, <<"Cookie", "Policy">>,
    <<"we", "use">>, <<"Our", "cookie", "policy">>, <<"Hello", "World">>, <<"cookie">> }
PadWords == 46..50
GateTexts ==
  { <<>> } \cup { <<h>> : h \in GateHeads }
    \cup { <<h, Rep("lorem", n)>> : h \in GateHeads, n \in PadWords }

InitText ==
  /\ InitWith({FALSE})
  /\ cleaned = <<>>
  /\ \/ raw \in RawTexts /\ gated = <<>> /\ verdict = "none"
     \/ raw = NoRaw /\ gated \in GateTexts /\ verdict = "unset"

\* Lines 129 and 95-98: the cleaner is applied, first to the raw text and then
\* to its own result.
apply_clean_extracted_text ==
  /\ raw # NoRaw
  /\ Len(cleaned) < 2
  /\ cleaned' = Append(cleaned, clean_extracted_text(IF cleaned = <<>> THEN raw
                                                      ELSE cleaned[Len(cleaned)]))
  /\ UNCHANGED << raw, gated, verdict, pipelineVars >>

\* Lines 141 and 100-102: the quality gate is applied.
apply_is_valid_content ==
  /\ verdict = "unset"
  /\ verdict' = IF is_valid_content(gated, MIN_WORDS) THEN "valid" ELSE "invalid"
  /\ UNCHANGED << raw, cleaned, gated, pipelineVars >>

NextText ==
  \/ apply_clean_extracted_text
  \/ apply_is_valid_content

SpecText == InitText /\ [][NextText]_vars

\* ------------------------------------------------------------------- claims
\* The worker w takes the step.
WorkerStep(w) == << pc[w], idx[w] >> # << pc'[w], idx'[w] >>

\* The worker w is inside the loop body for results[w][idx[w]].
AtUrl(w) == pc[w] \in {"try", "strat_sleep", "scraped", "persist", "persist_mark",
                       "mark", "url_sleep"}

HasRow(u) == \E i \in 1..Len(db) : db[i].url = u

\* C1: in every reachable state, whatever the interleaving of the pipelines,
\* the durable store holds at most one row per url.
C1_AtMostOneRowPerUrl ==
  \A i, j \in 1..Len(db) : db[i].url = db[j].url => i = j

\* Two pipelines raced on one url: one committed the row, the other's commit
\* hit the unique constraint.
C1_Witness ==
  \E w1, w2 \in Workers :
    /\ w1 # w2
    /\ AtUrl(w1) /\ AtUrl(w2)
    /\ CurUrl(w1) = CurUrl(w2)
    /\ idx[w1] \in persistFailedAt[w1]
    /\ pc[w2] \in {"persist_mark", "mark", "url_sleep"}
    /\ idx[w2] \notin persistFailedAt[w2]
    /\ HasRow(CurUrl(w1))

\* C2 as stated: whenever a pipeline is about to run a fetch strategy for a
\* url, no row for that url exists.
C2_NeverRescraped ==
  \A w \in Workers : pc[w] = "try" => ~ HasRow(CurUrl(w))

\* C2 as amended: a pipeline whose batch lookup found the row of a url never
\* runs a fetch strategy for it, whether or not the marker exists.
C2_NoFetchAfterLookup ==
  \A w \in Workers : pc[w] \in {"try", "strat_sleep", "scraped"} => CurUrl(w) \notin hadRecord[w]

\* A pipeline skipped a url whose row its lookup found while no marker existed.
C2_Witness ==
  \E w \in Workers :
    /\ pc[w] = "loop"
    /\ idx[w] > 1
    /\ results[w][idx[w] - 1] \in hadRecord[w]
    /\ ~ MarkerExists(results[w][idx[w] - 1])

\* The order in which try_scrape is to run the strategies.
StrategyOrder == <<"strategy_requests", "strategy_cloudscraper", "strategy_requests_html">>

\* The outcome passes the quality gate.
Valid(out) == ~ out.raised /\ is_valid_content(out.text, MIN_WORDS)

\* C3: the strategies run in list order, each at most once, none after the first
\* one that gave valid content; try_scrape returns that content, or the failure
\* message after all of them failed.
C3_FallbackOrder ==
  \A w \in Workers :
    LET inv == invoked[w]
        n == Len(inv)
        avail == IF HAS_REQUESTS_HTML THEN 3 ELSE 2
    IN /\ n <= avail
       /\ \A i \in 1..n : inv[i].strat = StrategyOrder[i]
       /\ \A i \in 1..n : i < n => ~ Valid(inv[i].out)
       /\ pc[w] = "try" => n = strat[w] - 1
       /\ pc[w] = "scraped" =>
            /\ n >= 1
            /\ IF Valid(inv[n].out)
                 THEN content[w] = inv[n].out.text
                 ELSE n = avail /\ content[w] = FAILED_MSG

\* Strategy 1 gave invalid content, strategy 2 valid content, which try_scrape
\* returned without running strategy 3.
C3_Witness ==
  \E w \in Workers :
    /\ HAS_REQUESTS_HTML
    /\ pc[w] = "scraped"
    /\ Len(invoked[w]) = 2
    /\ ~ invoked[w][1].out.raised
    /\ ~ Valid(invoked[w][1].out)
    /\ Valid(invoked[w][2].out)
    /\ content[w] = invoked[w][2].out.text

\* C4 as stated: when the pipeline has finished a url for which a strategy gave
\* content that passed the quality gate, and no write raised, the url has a row
\* and its marker has been set.
C4_ValidContentPersisted ==
  \A w \in Workers :
    ( /\ pc[w] = "url_sleep"
      /\ content[w] # FAILED_MSG
      /\ idx[w] \notin persistFailedAt[w] )
    => HasRow(CurUrl(w)) /\ markers[CurUrl(w)] # 0

\* The worker w is in the part of the loop body that follows the failure of the
\* last strategy for the current url.
ChainFailed(w) ==
  \/ pc[w] = "strat_sleep" /\ strat[w] = (IF HAS_REQUESTS_HTML THEN 3 ELSE 2)
  \/ pc[w] \in {"scraped", "url_sleep"} /\ content[w] = FAILED_MSG

\* The worker w is at line 205 for a url that has neither row nor marker.
AtUnprocessed(w) ==
  /\ pc[w] = "loop"
  /\ idx[w] <= Len(results[w])
  /\ CurUrl(w) # NoUrl
  /\ ~ HasRow(CurUrl(w))
  /\ ~ MarkerExists(CurUrl(w))

\* C5: after every strategy failed for a url the pipeline changes neither the
\* rows nor the markers and goes on to the pause; and a pipeline that comes to
\* a url without row and marker runs the fetch chain for it.
C5_FailureWritesNothing ==
  [][ \A w \in Workers :
        /\ (ChainFailed(w) /\ WorkerStep(w)) =>
             /\ db' = db
             /\ markers' = markers
             /\ pc[w] = "scraped" => pc'[w] = "url_sleep"
        /\ (AtUnprocessed(w) /\ WorkerStep(w)) => pc'[w] = "try" ]_vars

\* A later pipeline runs the first strategy for a url whose strategies all
\* failed in an earlier pipeline.
C5_Witness ==
  \E w \in Workers :
    /\ pc[w] = "try"
    /\ strat[w] = 1
    /\ results[w] = <<NoUrl, "u2", "u1">>
    /\ CurUrl(w) \in failed
    /\ requests = 2

\* The lines of the rows whose query contains q, case-insensitively.
ExpectedLines(q) ==
  { l \in UNION { SeqRange(db[i].extracted_content) : i \in 1..Len(db) } :
      \E i \in 1..Len(db) :
        /\ ILike(db[i].query, q)
        /\ l \in SeqRange(db[i].extracted_content) }

\* C6 as stated: when the aggregator call fails (it raises, or its payload is
\* malformed) nothing is fetched, persisted or marked, and the request goes on
\* to aggregate the stored rows matching the query and returns that blob.
C6_AggregatorFailureAggregates ==
  [][ \A w \in Workers :
        /\ (pc[w] = "search" /\ served'[w] \in {"search_failed", "error"}) =>
             /\ pc'[w] = "aggregate"
             /\ UNCHANGED << db, markers, cache >>
        /\ (served[w] = "search_failed" /\ WorkerStep(w)) =>
             /\ UNCHANGED << db, markers >>
             /\ pc[w] \in {"aggregate", "cache_store", "done"}
             /\ pc[w] = "aggregate" =>
                  /\ pc'[w] = "cache_store"
                  /\ SeqRange(compressed'[w]) = ExpectedLines(query[w])
             /\ pc[w] = "cache_store" =>
                  /\ pc'[w] = "done"
                  /\ answer'[w] = compressed[w] ]_vars

\* C7: a write error in persist_result leaves the rows as they were and the
\* pipeline goes on at line 213; the loop visits every remaining candidate
\* before the aggregation, whose blob is the response.
C7_State(w) ==
  /\ \A i \in persistFailedAt[w] :
       /\ i <= idx[w]
       /\ (i = idx[w] /\ AtUrl(w)) => pc[w] \in {"mark", "url_sleep"}
  /\ (persistFailedAt[w] # {} /\ pc[w] \in {"aggregate", "cache_store", "done"}) =>
       /\ served[w] = "pipeline"
       /\ idx[w] = Len(results[w]) + 1
  /\ (persistFailedAt[w] # {} /\ pc[w] = "done") => answer[w] = compressed[w]

C7_PersistFailureContained ==
  [][ \A w \in Workers :
        /\ C7_State(w)'
        /\ persistFailedAt'[w] \notin {persistFailedAt[w], {}} =>
             /\ db' = db
             /\ pc'[w] = "mark"
        /\ (pc[w] = "url_sleep" /\ WorkerStep(w)) =>
             /\ pc'[w] = "loop"
             /\ idx'[w] = idx[w] + 1 ]_vars

\* The write for the second of three results raised, the third result was
\* scraped and persisted, and the request was answered.
C7_Witness ==
  \E w \in Workers :
    /\ pc[w] = "done"
    /\ results[w] = <<NoUrl, "u2", "u1">>
    /\ persistFailedAt[w] = {2}
    /\ requests = 1
    /\ DbUrls(db) = {"u1"}

\* C8: a request that finds a non-expired cache entry for its query is answered
\* with the entry's value and does nothing else: rows, markers and the cache
\* stay as they are and the request ends.
C8_CacheHitIsTerminal ==
  [][ \A w \in Workers :
        /\ (pc[w] = "idle" /\ pc'[w] # "idle" /\ cache[query'[w]].exp > now) =>
             /\ pc'[w] = "done"
             /\ served'[w] = "cache"
             /\ answer'[w] = cache[query'[w]].val
             /\ UNCHANGED << db, markers, cache, requests >>
        /\ (served[w] = "cache" /\ WorkerStep(w)) =>
             /\ pc[w] = "done"
             /\ pc'[w] = "idle"
             /\ UNCHANGED << db, markers, cache, requests >> ]_vars

\* A request was answered from the cache.
C8_Witness ==
  \E w \in Workers :
    /\ pc[w] = "done"
    /\ served[w] = "cache"
    /\ answer[w] # <<>>
    /\ cache[query[w]].exp > now

\* The entries cached for q so far: the current one and those replaced before
\* they expired.  An entry cached at time T has exp = T + CACHE_TTL.
CachedFor(q) ==
  { [val |-> e.val, exp |-> e.exp] : e \in { o \in overwritten : o.q = q } }
    \cup (IF cache[q].exp # 0 THEN {cache[q]} ELSE {})

\* C9 as stated: a request for q made before T+5min is answered with the
\* answer cached at T (up to the order of the lines, which the set of
\* compress_results does not fix), whatever was cached at T.
C9_ServedUntilExpiry ==
  [][ \A w \in Workers :
        (pc[w] = "idle" /\ pc'[w] # "idle") =>
          \A e \in CachedFor(query'[w]) :
            now < e.exp =>
              /\ pc'[w] = "done"
              /\ SeqRange(answer'[w]) = SeqRange(e.val) ]_vars

\* C9 as amended: the entry last cached for q, at time T, is what every request
\* for q before T+5min is answered with; the first request at or after T+5min
\* starts a pipeline; writing rows never changes the cache.
C9_LatestEntryServedUntilExpiry ==
  [][ /\ \A w \in Workers :
           (pc[w] = "idle" /\ pc'[w] # "idle") =>
             IF now < cache[query'[w]].exp
               THEN pc'[w] = "done" /\ answer'[w] = cache[query'[w]].val
               ELSE pc'[w] = "search"
      /\ \A q \in Queries :
           cache'[q] # cache[q] =>
             /\ cache'[q].exp = now + CACHE_TTL
             /\ \E w \in Workers :
                  /\ pc[w] = "cache_store" /\ pc'[w] = "done"
                  /\ query[w] = q
                  /\ cache'[q].val = compressed[w]
      /\ db' # db => cache' = cache ]_vars

\* Four minutes after the answer was cached a request got it although rows
\* matching the query had been written since.
C9_Witness ==
  \E w \in Workers :
    /\ pc[w] = "done"
    /\ served[w] = "cache"
    /\ now = cache[query[w]].exp - CACHE_TTL + 240
    /\ answer[w] = cache[query[w]].val
    /\ SeqRange(answer[w]) # ExpectedLines(query[w])

\* C10: a pipeline whose lookup found the row of a url skips the url when its
\* marker has expired: no strategy runs and no row is written.
C10_ExpiredMarkerStillSkipped ==
  [][ \A w \in Workers :
        ( /\ pc[w] = "loop"
          /\ idx[w] <= Len(results[w])
          /\ CurUrl(w) # NoUrl
          /\ CurUrl(w) \in hadRecord[w]
          /\ markers[CurUrl(w)] # 0
          /\ markers[CurUrl(w)] <= now
          /\ WorkerStep(w) )
        => /\ pc'[w] = "loop"
           /\ idx'[w] = idx[w] + 1
           /\ invoked'[w] = <<>>
           /\ db' = db ]_vars

\* A pipeline for another query skipped a url whose marker had expired and
\* whose row remained.
C10_Witness ==
  \E w \in Workers :
    /\ pc[w] = "loop"
    /\ idx[w] > 1
    /\ LET u == results[w][idx[w] - 1]
       IN /\ u # NoUrl
          /\ u \in hadRecord[w]
          /\ markers[u] # 0
          /\ markers[u] <= now
          /\ \E i \in 1..Len(db) : db[i].url = u /\ db[i].query # query[w]

\* The number of places of the sequence that hold x.
Count(seq, x) == Cardinality({ i \in 1..Len(seq) : seq[i] = x })

\* C11: the blob compress_results builds from the rows matching the query holds
\* every line of every such row exactly once, and no other line.
C11_EveryLineOnce ==
  [][ \A w \in Workers :
        (pc[w] = "aggregate" /\ pc'[w] = "cache_store") =>
          LET rows == { db[i] : i \in { j \in 1..Len(db) : ILike(db[j].query, query[w]) } }
              blob == compressed'[w]
          IN /\ \A r \in rows : \A k \in 1..Len(r.extracted_content) :
                  Count(blob, r.extracted_content[k]) = 1
             /\ \A k \in 1..Len(blob) :
                  \E r \in rows : Count(r.extracted_content, blob[k]) >= 1 ]_vars

\* Two rows that share a line and differ in another were compressed to a blob
\* of two lines.
C11_Witness ==
  \E w \in Workers :
    /\ pc[w] = "cache_store"
    /\ Len(compressed[w]) = 2
    /\ \E i, j \in 1..Len(db) :
         /\ ILike(db[i].query, query[w]) /\ ILike(db[j].query, query[w])
         /\ db[i].extracted_content = HELLO
         /\ db[j].extracted_content = LOREM

\* C12: cleaning a cleaned text gives the same text.
C12_CleanerIdempotent == Len(cleaned) = 2 => cleaned[2] = cleaned[1]

\* "We use cookies\n a\n Menu " was cleaned to "a", and "a" to "a".
C12_Witness ==
  /\ raw = << <<"We", SP, "use", SP, "cookies">>, <<SP, "a">>, <<SP, "Menu", SP>> >>
  /\ cleaned = << << <<"a">> >>, << <<"a">> >> >>

RECURSIVE WordCount(_)
\* The number of words of a text.
WordCount(t) == IF t = <<>> THEN 0 ELSE Len(Head(t)) + WordCount(Tail(t))

RECURSIVE TextChars(_)
\* The lowercased characters of a text, "\n" between its lines.
TextChars(t) ==
  IF t = <<>> THEN <<>>
  ELSE IF Len(t) = 1 THEN SpacedChars(t[1])
  ELSE SpacedChars(t[1]) \o <<"\n">> \o TextChars(Tail(t))

\* The text, lowercased, starts with a cookie-notice phrase.
BeginsWithNotice(t) ==
  \/ IsPrefix(SpacedChars(<<"we", "use", "cookies">>), TextChars(t))
  \/ IsPrefix(SpacedChars(<<"cookie", "policy">>), TextChars(t))

\* C13: the quality gate rejects every text of fewer than 50 words and every
\* text that starts with a cookie-notice phrase, and accepts every other text.
C13_QualityGate ==
  verdict \in {"valid", "invalid"} =>
    /\ WordCount(gated) < 50 => verdict = "invalid"
    /\ BeginsWithNotice(gated) => verdict = "invalid"
    /\ (WordCount(gated) >= 50 /\ ~ BeginsWithNotice(gated)) => verdict = "valid"

\* A text of exactly 50 words whose first line is "we use" was accepted.
C13_Witness ==
  /\ verdict = "valid"
  /\ WordCount(gated) = 50
  /\ gated[1] = <<"we", "use">>

\* C14 as stated: whenever the marker of a url exists, a row for the url exists.
C14_MarkerImpliesRecord ==
  \A u \in Urls : MarkerExists(u) => HasRow(u)

\* C15 as stated: the step that skips an already processed url sets its marker
\* for 24 hours.
C15_SkipSetsMarker ==
  [][ \A w \in Workers :
        ( /\ pc[w] = "loop"
          /\ idx[w] <= Len(results[w])
          /\ CurUrl(w) # NoUrl
          /\ MarkerExists(CurUrl(w)) \/ CurUrl(w) \in existing_urls[w]
          /\ WorkerStep(w) )
        => markers'[CurUrl(w)] = now + MARKER_TTL ]_vars

\* C16: a pipeline never runs two fetch strategies, for one url or for two,
\* without a pause between them; it runs them one at a time, in the one thread
\* of its request.
C16_PauseBetweenFetches ==
  \A w \in Workers : unpaused[w] <= 1

\* A pipeline that fetched and persisted the second result runs the first
\* strategy for the third, after the pause.
C16_Witness ==
  \E w \in Workers :
    /\ pc[w] = "try"
    /\ results[w] = <<NoUrl, "u2", "u1">>
    /\ idx[w] = 3
    /\ requests = 1
    /\ HasRow("u2")
    /\ unpaused[w] = 0

\* C17: no step removes or changes a row; rows are only added, at the end.
C17_AppendOnly ==
  [][ /\ Len(db') >= Len(db)
      /\ \A i \in 1..Len(db) : db'[i] = db[i] ]_vars

\* Two rows were stored, every fetch chain having given an article, and
\* /results listed both.
C17_Witness ==
  \E w \in Workers :
    /\ pc[w] = "done"
    /\ served[w] = "results"
    /\ Len(db) = 2
    /\ Len(answer[w]) = 2
    /\ failed = {}

\* C18: a cache entry never holds an empty answer; the cache changes only when
\* a pipeline ends with a non-empty blob, which becomes the entry's value and
\* the response; a pipeline that ends with an empty blob returns it and leaves
\* the cache as it is.
C18_CacheNeverEmpty ==
  [][ /\ \A q \in Queries : cache'[q].exp # 0 => cache'[q].val # <<>>
      /\ \A w \in Workers :
           (pc[w] = "cache_store" /\ pc'[w] = "done") =>
             /\ answer'[w] = compressed[w]
             /\ IF compressed[w] = <<>>
                  THEN cache' = cache
                  ELSE cache'[query[w]].val = compressed[w]
      /\ cache' # cache =>
           \E w \in Workers :
             pc[w] = "cache_store" /\ pc'[w] = "done" /\ compressed[w] # <<>> ]_vars

\* A pipeline that found no matching row returned the empty blob and cached
\* nothing.
C18_Witness ==
  \E w \in Workers :
    /\ pc[w] = "done"
    /\ served[w] \in {"pipeline", "search_failed"}
    /\ answer[w] = <<>>
    /\ cache[query[w]] = NoEntry

\* C19 as stated: a request that started a pipeline ends with the blob of its
\* aggregation as answer, whatever failed on the way; no try_scrape runs more
\* strategies than there are and the loop never passes the end of the results.
C19_EndsWithAnswer ==
  \A w \in Workers :
    /\ Len(invoked[w]) <= Len(strategies(HAS_REQUESTS_HTML))
    /\ idx[w] <= Len(results[w]) + 1
    /\ (pc[w] = "done" /\ served[w] \notin {"cache", "results"}) =>
         /\ served[w] \in {"pipeline", "search_failed"}
         /\ answer[w] = compressed[w]

====
